---- MODULE Spec2Model ----
(***************************************************************************)
(* Model of c_src/rtm_watcher.c: the netlink route watcher of routemachine. *)
(*                                                                         *)
(* Buffers are sequences of bytes (0..255) addressed by 0-based offsets,   *)
(* the host is little-endian, int is 32 bits wide.  Output records are the *)
(* iovec arrays handed to writev: a route event is                         *)
(* [cmd, mask, dst, gw, prio] (each address field a byte sequence) and an  *)
(* error is [cmd, len, msg].  writev and close are taken to succeed.       *)
(***************************************************************************)
EXTENDS Integers, Sequences, FiniteSets, TLC

VARIABLES pc, status, rsetStdin, rsetSock, wsetSock, errno, out,
          dumps, ops, rx, rxOut, rxDisp, rxOob, frame, ptrsize,
          wakeups, reads, first, attrTab

vars == <<pc, status, rsetStdin, rsetSock, wsetSock, errno, out,
          dumps, ops, rx, rxOut, rxDisp, rxOob, frame, ptrsize,
          wakeups, reads, first, attrTab>>

(***************************************************************************)
(* Program constants                                                       *)
(***************************************************************************)
RTM_CMD_ROUTE_ADD == 0
RTM_CMD_ROUTE_DEL == 1
RTM_CMD_ROUTE_ERR == 255
BUFSIZE == 8192

\* <linux/netlink.h>, <linux/rtnetlink.h>, <sys/socket.h>, <errno.h>
SizeofNlmsghdr == 16
SizeofRtmsg == 12
SizeofRtattr == 4
SizeofSockaddrNl == 12
SizeofInAddr == 4
NLMSG_DONE == 3
RTM_NEWLINK == 16
RTM_NEWADDR == 20
RTM_NEWROUTE == 24
RTM_DELROUTE == 25
AF_UNSPEC == 0
AF_INET == 2
AF_INET6 == 10
RT_TABLE_MAIN == 254
RT_TABLE_LOCAL == 255
RTPROT_KERNEL == 2
RTPROT_BOOT == 3
\* routemachine.h is not part of the tree; only distinctness from the
\* kernel's own protocol ids matters.
RTPROT_ROUTEMACHINE == 143
RTA_DST == 1
RTA_OIF == 4
RTA_GATEWAY == 5
RTA_PRIORITY == 6
RTA_TABLE == 15
RTA_MAX == 30
EINTR == 4
EBADF == 9
EAGAIN == 11
EWOULDBLOCK == 11
ENOBUFS == 105

NULL == -1
\* value of a byte or table slot the program never initialised
INDET == 256
MinInt32 == -2147483647 - 1
MaxInt32 == 2147483647

(***************************************************************************)
(* 32-bit arithmetic.  Values are kept as signed 32-bit integers; an       *)
(* unsigned 32-bit value u is held as the int with the same bit pattern.   *)
(***************************************************************************)
Hi16(x) == (x - (x % 65536)) \div 65536
Lo16(x) == x % 65536

\* a - b modulo 2^32, in the signed representation
Sub32(a, b) ==
    LET lo == Lo16(a) - Lo16(b)
        borrow == IF lo < 0 THEN 1 ELSE 0
        hi == Hi16(a) - Hi16(b) - borrow
        hiw == ((hi + 32768) % 65536) - 32768
    IN  hiw * 65536 + (lo % 65536)

\* ((len) + 4U - 1) & ~(4U - 1) as unsigned int, in the signed representation
Align4(len) ==
    IF len > MaxInt32 - 3 THEN MinInt32
    ELSE (len + 3) - ((len + 3) % 4)

NLMSG_ALIGN(len) == Align4(len)
RTA_ALIGN(len) == Align4(len)
\* NLMSG_LENGTH(len) = len + NLMSG_HDRLEN
NLMSG_LENGTH(len) == len + SizeofNlmsghdr

(***************************************************************************)
(* Memory reads                                                            *)
(***************************************************************************)
Byte(buf, o) == IF o >= 0 /\ o < Len(buf) THEN buf[o + 1] ELSE INDET
Bytes(buf, o, n) == [i \in 1..n |-> Byte(buf, o + i - 1)]
U16(buf, o) == Byte(buf, o) + 256 * Byte(buf, o + 1)
\* a 32-bit little-endian word, as the int with that bit pattern
S32(buf, o) ==
    LET b3 == Byte(buf, o + 3)
    IN  Byte(buf, o) + 256 * Byte(buf, o + 1) + 65536 * Byte(buf, o + 2)
          + 16777216 * (IF b3 >= 128 THEN b3 - 256 ELSE b3)

\* struct nlmsghdr
nlmsg_len(buf, p) == S32(buf, p)
nlmsg_type(buf, p) == U16(buf, p + 4)
\* NLMSG_DATA(nlh) and struct rtmsg
NLMSG_DATA(p) == p + NLMSG_LENGTH(0)
rtm_family(buf, r) == Byte(buf, r)
rtm_dst_len(buf, r) == Byte(buf, r + 1)
rtm_table(buf, r) == Byte(buf, r + 4)
rtm_protocol(buf, r) == Byte(buf, r + 5)
RTM_RTA(r) == r + NLMSG_ALIGN(SizeofRtmsg)
\* struct rtattr
rta_len(buf, a) == U16(buf, a)
rta_type(buf, a) == U16(buf, a + 2)
RTA_DATA(a) == a + RTA_ALIGN(SizeofRtattr)
RTA_OK(buf, a, len) ==
    /\ len >= SizeofRtattr
    /\ rta_len(buf, a) >= SizeofRtattr
    /\ rta_len(buf, a) <= len

\* htonl on a little-endian host, on the four bytes of the word in memory
htonl(w) == <<w[4], w[3], w[2], w[1]>>

(***************************************************************************)
(* parse_attrs                                                             *)
(***************************************************************************)
\* memset(attrs, 0, sizeof(*rta) * (RTA_MAX + 1)) clears that many BYTES of
\* a table of pointers: slot i is cleared when all its bytes are.
ClearedSlots(psz) ==
    {i \in 0..RTA_MAX : (i + 1) * psz <= SizeofRtattr * (RTA_MAX + 1)}

InitAttrs(psz) ==
    [i \in 0..RTA_MAX |-> IF i \in ClearedSlots(psz) THEN NULL ELSE INDET]

RECURSIVE WalkAttrs(_, _, _, _)
WalkAttrs(buf, attrs, rta, len) ==
    IF RTA_OK(buf, rta, len) THEN
        LET t == rta_type(buf, rta)
            step == RTA_ALIGN(rta_len(buf, rta))
            attrs2 == IF t <= RTA_MAX THEN [attrs EXCEPT ![t] = rta] ELSE attrs
        IN  WalkAttrs(buf, attrs2, rta + step, len - step)
    ELSE attrs

parse_attrs(buf, rta, len, psz) == WalkAttrs(buf, InitAttrs(psz), rta, len)

(***************************************************************************)
(* error_reply, error_quit                                                 *)
(***************************************************************************)
strerror(e) ==
    CASE e = EINTR -> "Interrupted system call"
      [] e = EBADF -> "Bad file descriptor"
      [] e = EAGAIN -> "Resource temporarily unavailable"
      [] e = ENOBUFS -> "No buffer space available"
      [] OTHER -> "Unknown error"

\* error_reply whose length byte counts the terminating NUL
error_reply_countsNul(msg) ==
    [cmd |-> RTM_CMD_ROUTE_ERR, len |-> (Len(msg) + 1) % 256, msg |-> msg]

\* the record written by error_reply(msg): one byte of err, the low byte of
\* strlen(msg), then the message
error_reply(msg) ==
    [cmd |-> RTM_CMD_ROUTE_ERR, len |-> Len(msg) % 256, msg |-> msg]

\* the record written by error_quit(msg) before exit(1)
error_quit(msg, e) ==
    IF e = 0 THEN error_reply(msg)
    ELSE error_reply(msg \o ": " \o strerror(e))

(***************************************************************************)
(* notify: the records written for the frame at offset p of buf            *)
(***************************************************************************)
\* Verdict without the family switch's default branch
Verdict_familyUnchecked(t, len, protocol, table, family) ==
    IF t \notin {RTM_NEWROUTE, RTM_DELROUTE} THEN "not a route"
    ELSE IF len < 0 THEN "wrong message length"
    ELSE IF protocol = RTPROT_ROUTEMACHINE THEN "ignored"
    ELSE IF table # RT_TABLE_MAIN THEN "ignored"
    ELSE "route"

\* Verdict with the family switch moved before the self/table filter
Verdict_familyFirst(t, len, protocol, table, family) ==
    IF t \notin {RTM_NEWROUTE, RTM_DELROUTE} THEN "not a route"
    ELSE IF len < 0 THEN "wrong message length"
    ELSE IF family \notin {AF_INET, AF_INET6} THEN "bad message family"
    ELSE IF protocol = RTPROT_ROUTEMACHINE THEN "ignored"
    ELSE IF table # RT_TABLE_MAIN THEN "ignored"
    ELSE "route"

\* Verdict with the message-type switch's default branch returning silently
Verdict_otherTypesSilent(t, len, protocol, table, family) ==
    IF t \notin {RTM_NEWROUTE, RTM_DELROUTE} THEN "ignored"
    ELSE IF len < 0 THEN "wrong message length"
    ELSE IF protocol = RTPROT_ROUTEMACHINE THEN "ignored"
    ELSE IF table # RT_TABLE_MAIN THEN "ignored"
    ELSE IF family \notin {AF_INET, AF_INET6} THEN "bad message family"
    ELSE "route"

\* the checks notify makes before it builds a record, in their order
Verdict(t, len, protocol, table, family) ==
    IF t \notin {RTM_NEWROUTE, RTM_DELROUTE} THEN "not a route"
    ELSE IF len < 0 THEN "wrong message length"
    ELSE IF protocol = RTPROT_ROUTEMACHINE THEN "ignored"
    ELSE IF table # RT_TABLE_MAIN THEN "ignored"
    ELSE IF family \notin {AF_INET, AF_INET6} THEN "bad message family"
    ELSE "route"

\* len = nlmsgp->nlmsg_len - NLMSG_LENGTH(sizeof(*nlmsgp))
AttrLen(buf, p) == Sub32(nlmsg_len(buf, p), NLMSG_LENGTH(SizeofNlmsghdr))

\* the destination field: iov[DST]
DstField(buf, rtmp, attrs) ==
    IF attrs[RTA_DST] # NULL
    THEN Bytes(buf, RTA_DATA(attrs[RTA_DST]), (rtm_dst_len(buf, rtmp) + 7) \div 8)
    ELSE [i \in 1..SizeofInAddr |-> 0]

\* the gateway field: iov[GW]
GwField(buf, rtmp, attrs, host_len) ==
    IF attrs[RTA_GATEWAY] # NULL
    THEN Bytes(buf, RTA_DATA(attrs[RTA_GATEWAY]), host_len)
    ELSE [i \in 1..SizeofInAddr |-> 0]

\* the priority field: iov[PRIO]
PrioField(buf, attrs) ==
    IF attrs[RTA_PRIORITY] # NULL
    THEN htonl(Bytes(buf, RTA_DATA(attrs[RTA_PRIORITY]), 4))
    ELSE htonl(<<0, 0, 0, 0>>)

notify(buf, p, psz) ==
    LET t == nlmsg_type(buf, p)
        cmd == IF t = RTM_NEWROUTE THEN RTM_CMD_ROUTE_ADD ELSE RTM_CMD_ROUTE_DEL
        len == AttrLen(buf, p)
        rtmp == NLMSG_DATA(p)
        host_len == IF rtm_family(buf, rtmp) = AF_INET THEN 4 ELSE 16
        attrs == parse_attrs(buf, RTM_RTA(rtmp), len, psz)
        v == Verdict(t, len, rtm_protocol(buf, rtmp), rtm_table(buf, rtmp),
                     rtm_family(buf, rtmp))
    IN  IF v = "ignored" THEN <<>>
        ELSE IF v = "route" THEN
            <<[cmd |-> cmd, mask |-> rtm_dst_len(buf, rtmp),
               dst |-> DstField(buf, rtmp, attrs),
               gw |-> GwField(buf, rtmp, attrs, host_len),
               prio |-> PrioField(buf, attrs)]>>
        ELSE <<error_reply(v)>>

(***************************************************************************)
(* The kernel's side: how a frame description is laid out in memory.       *)
(* A frame description is                                                  *)
(*   [type, family, dst_len, protocol, table, attrs, fill, declen, cut]    *)
(* attrs is the sequence of attribute kinds, fill the payload size of a    *)
(* trailing filler attribute (0: none), declen the declared length (NULL:  *)
(* the true length), cut the number of trailing bytes the read lost.       *)
(***************************************************************************)
LE16(n) == <<n % 256, (n \div 256) % 256>>
LE32(n) == <<n % 256, (n \div 256) % 256, (n \div 65536) % 256,
             (n \div 16777216) % 256>>

Dst4 == <<10, 1, 2, 3>>
Dst6 == <<32, 1, 13, 184, 0, 1, 0, 2, 0, 3, 0, 4, 0, 5, 0, 6>>
Gw4 == <<192, 168, 0, 1>>
Gw6 == <<254, 128, 0, 0, 0, 0, 0, 0, 0, 0, 0, 0, 0, 0, 0, 1>>
PrioHost == <<1, 2, 3, 4>>
PrioNet == <<4, 3, 2, 1>>

AttrData(kind, family) ==
    CASE kind = RTA_DST -> IF family = AF_INET6 THEN Dst6 ELSE Dst4
      [] kind = RTA_GATEWAY -> IF family = AF_INET6 THEN Gw6 ELSE Gw4
      [] kind = RTA_PRIORITY -> PrioHost
      [] kind = RTA_TABLE -> <<RT_TABLE_MAIN, 0, 0, 0>>
      [] OTHER -> <<2, 0, 0, 0>>

EncAttr(kind, data) == LE16(SizeofRtattr + Len(data)) \o LE16(kind) \o data

RECURSIVE EncAttrs(_, _)
EncAttrs(kinds, family) ==
    IF kinds = <<>> THEN <<>>
    ELSE EncAttr(Head(kinds), AttrData(Head(kinds), family))
           \o EncAttrs(Tail(kinds), family)

EncBody(f) ==
    IF f.type = NLMSG_DONE THEN <<0, 0, 0, 0>>
    ELSE <<f.family, f.dst_len, 0, 0, f.table, f.protocol, 0, 1, 0, 0, 0, 0>>
           \o EncAttrs(f.attrs, f.family)
           \o (IF f.fill = 0 THEN <<>>
               ELSE EncAttr(RTA_MAX + 1, [i \in 1..f.fill |-> 0]))

TrueLen(f) == SizeofNlmsghdr + Len(EncBody(f))

EncFrame(f) ==
    LET full == LE32(IF f.declen = NULL THEN TrueLen(f) ELSE f.declen)
                  \o LE16(f.type) \o <<0, 0>> \o LE32(1) \o LE32(0)
                  \o EncBody(f)
    IN  SubSeq(full, 1, Len(full) - f.cut)

Frame(type, family, dst_len, protocol, table, attrs) ==
    [type |-> type, family |-> family, dst_len |-> dst_len,
     protocol |-> protocol, table |-> table, attrs |-> attrs,
     fill |-> 0, declen |-> NULL, cut |-> 0]

Range(s) == {s[i] : i \in 1..Len(s)}

(***************************************************************************)
(* Specification of notify alone: every frame of NotifyFrames is handed to *)
(* notify once.                                                            *)
(***************************************************************************)
MaxAttrs == 3

AttrKinds == {RTA_DST, RTA_GATEWAY, RTA_PRIORITY, RTA_OIF}

\* attribute blocks: the kinds in every order, no kind twice
AttrLists ==
    UNION {{s \in [1..n -> AttrKinds] :
              \A i, j \in 1..n : i # j => s[i] # s[j]} : n \in 0..MaxAttrs}

FamilyMasks ==
    {<<AF_INET, 0>>, <<AF_INET, 24>>, <<AF_INET, 32>>,
     <<AF_INET6, 0>>, <<AF_INET6, 64>>, <<AF_INET6, 128>>,
     <<AF_UNSPEC, 0>>}

NotifyFrames ==
    {Frame(t, fm[1], fm[2], pr, tb, al) :
        t \in {RTM_NEWROUTE, RTM_DELROUTE, RTM_NEWLINK},
        fm \in FamilyMasks,
        pr \in {RTPROT_ROUTEMACHINE, RTPROT_KERNEL},
        tb \in {RT_TABLE_MAIN, RT_TABLE_LOCAL},
        al \in AttrLists}

NoFrame == Frame(0, 0, 0, 0, 0, <<>>)
NoRx == [kind |-> "none"]

InitNotify ==
    /\ pc = "notify"
    /\ frame \in NotifyFrames
    /\ ptrsize \in {4, 8}
    /\ status = NULL
    /\ rsetStdin = FALSE /\ rsetSock = FALSE /\ wsetSock = FALSE
    /\ errno = 0
    /\ out = <<>>
    /\ dumps = 0 /\ ops = <<>>
    /\ rx = NoRx /\ rxOut = <<>> /\ rxDisp = <<>> /\ rxOob = FALSE
    /\ wakeups = 0 /\ reads = 0
    /\ first = NoRx /\ attrTab = <<>>

NotifyStep ==
    /\ pc = "notify"
    /\ pc' = "notified"
    /\ out' = out \o notify(EncFrame(frame), 0, ptrsize)
    /\ UNCHANGED <<status, rsetStdin, rsetSock, wsetSock, errno, dumps, ops,
                   rx, rxOut, rxDisp, rxOob, frame, ptrsize, wakeups, reads,
                   first, attrTab>>

NextNotify == NotifyStep

SpecNotify == InitNotify /\ [][NextNotify]_vars

(***************************************************************************)
(* read_routes                                                             *)
(*                                                                         *)
(* A recvmsg outcome is [kind |-> "err", err], [kind |-> "eof"] or         *)
(* [kind |-> "data", namelen, trunc, frames, tail]: the bytes received are *)
(* the frames back to back followed by tail more bytes.                    *)
(***************************************************************************)
RECURSIVE EncFrames(_)
EncFrames(fs) ==
    IF fs = <<>> THEN <<>> ELSE EncFrame(Head(fs)) \o EncFrames(Tail(fs))

EncBatch(r) == EncFrames(r.frames) \o [i \in 1..r.tail |-> 0]

\* exit status reported for a process killed by SIGSEGV
KilledBySegv == 139

\* What a read of a frame header outside the bytes received can lead to:
\* the indeterminate length is rejected by the length check, or the walk
\* runs on into unmapped memory.
UBOutcomes == {"rejected", "segv"}

Result(o, st, e, d, oob) ==
    [out |-> o, status |-> st, errno |-> e, disp |-> d, oob |-> oob]

FramingError(trunc) ==
    IF trunc THEN "truncated message" ELSE "malformed message"

\* Dispatched without the NLMSG_DONE test
Dispatched_always(buf, p) == TRUE

\* if (p->nlmsg_type != NLMSG_DONE) notify(&nl, p)
Dispatched(buf, p) == nlmsg_type(buf, p) # NLMSG_DONE

\* the while loop of read_routes; p is the offset of the next frame, ret the
\* count of bytes left, o the records written, d the offsets dispatched
RECURSIVE FrameLoop(_, _, _, _, _, _, _, _, _)
FrameLoop(buf, trunc, p, ret, e, psz, g, o, d) ==
    IF ret < 0 \/ ret >= SizeofNlmsghdr THEN
        IF p + SizeofNlmsghdr > Len(buf) THEN
            IF g = "segv" THEN Result(o, KilledBySegv, e, d, TRUE)
            ELSE Result(Append(o, error_quit(FramingError(trunc), e)),
                        1, e, d, TRUE)
        ELSE
            LET len == nlmsg_len(buf, p)
                al == NLMSG_ALIGN(len)
                call == Dispatched(buf, p)
            IN  IF (len >= 0 /\ len < SizeofNlmsghdr) \/ len > ret THEN
                    Result(Append(o, error_quit(FramingError(trunc), e)),
                           1, e, d, FALSE)
                ELSE
                    FrameLoop(buf, trunc,
                              IF al < 0 \/ al > BUFSIZE THEN BUFSIZE ELSE p + al,
                              Sub32(ret, al), e, psz, g,
                              IF call THEN o \o notify(buf, p, psz) ELSE o,
                              IF call THEN Append(d, p) ELSE d)
    ELSE IF trunc THEN Result(o, NULL, e, d, FALSE)
    ELSE IF ret # 0 THEN
        Result(Append(o, error_quit("unexpected remaining bytes", e)),
               1, e, d, FALSE)
    ELSE Result(o, NULL, e, d, FALSE)

\* read_routes that tests errno without testing recvmsg's return value
read_routes_errnoAlone(r, e, psz, g) ==
    IF (r.kind = "err" /\ r.err \in {EINTR, EAGAIN, ENOBUFS})
       \/ (r.kind # "err" /\ e \in {EINTR, EAGAIN, ENOBUFS})
    THEN Result(<<>>, NULL, IF r.kind = "err" THEN r.err ELSE e, <<>>, FALSE)
    ELSE IF r.kind = "err" THEN
        Result(<<error_quit("recvmsg", r.err)>>, 1, r.err, <<>>, FALSE)
    ELSE IF r.kind = "eof" THEN
        Result(<<error_quit("recvmsg: EOF", e)>>, 1, e, <<>>, FALSE)
    ELSE IF r.namelen # SizeofSockaddrNl THEN
        Result(<<error_quit("bad message namelen", e)>>, 1, e, <<>>, FALSE)
    ELSE
        LET buf == EncBatch(r)
        IN  FrameLoop(buf, r.trunc, 0, Len(buf), e, psz, g, <<>>, <<>>)

\* read_routes on recvmsg outcome r, entered with errno e; status NULL
\* means the call returned
read_routes(r, e, psz, g) ==
    IF r.kind = "err" THEN
        IF r.err \in {EINTR, EAGAIN, ENOBUFS}
        THEN Result(<<>>, NULL, r.err, <<>>, FALSE)
        ELSE Result(<<error_quit("recvmsg", r.err)>>, 1, r.err, <<>>, FALSE)
    ELSE IF r.kind = "eof" THEN
        Result(<<error_quit("recvmsg: EOF", e)>>, 1, e, <<>>, FALSE)
    ELSE IF r.namelen # SizeofSockaddrNl THEN
        Result(<<error_quit("bad message namelen", e)>>, 1, e, <<>>, FALSE)
    ELSE
        LET buf == EncBatch(r)
        IN  FrameLoop(buf, r.trunc, 0, Len(buf), e, psz, g, <<>>, <<>>)

(***************************************************************************)
(* recvmsg outcomes                                                        *)
(***************************************************************************)
RxErr(e) == [kind |-> "err", err |-> e]
RxEof == [kind |-> "eof"]
RxData(frames, tail, trunc, namelen) ==
    [kind |-> "data", namelen |-> namelen, trunc |-> trunc,
     frames |-> frames, tail |-> tail]
RxBatch(frames) == RxData(frames, 0, FALSE, SizeofSockaddrNl)

FullAttrs == <<RTA_TABLE, RTA_DST, RTA_PRIORITY, RTA_GATEWAY, RTA_OIF>>
Add4 == Frame(RTM_NEWROUTE, AF_INET, 32, RTPROT_KERNEL, RT_TABLE_MAIN, FullAttrs)
Del6 == Frame(RTM_DELROUTE, AF_INET6, 64, RTPROT_BOOT, RT_TABLE_MAIN, FullAttrs)
Self4 == Frame(RTM_NEWROUTE, AF_INET, 24, RTPROT_ROUTEMACHINE, RT_TABLE_MAIN,
               FullAttrs)
Local4 == Frame(RTM_NEWROUTE, AF_INET, 8, RTPROT_KERNEL, RT_TABLE_LOCAL,
                FullAttrs)
Unspec == Frame(RTM_NEWROUTE, AF_UNSPEC, 0, RTPROT_KERNEL, RT_TABLE_MAIN,
                <<RTA_TABLE>>)
Link == Frame(RTM_NEWLINK, AF_UNSPEC, 0, 0, 0, <<RTA_OIF>>)
Addr == Frame(RTM_NEWADDR, AF_INET, 24, 0, 0, <<RTA_DST>>)
Done == Frame(NLMSG_DONE, 0, 0, 0, 0, <<>>)

KernelFrames == {Add4, Del6, Self4, Local4, Unspec, Link, Addr, Done}

\* frames whose declared length is wrong
TooShort == [Add4 EXCEPT !.declen = SizeofNlmsghdr - 4]
TooLong == [Add4 EXCEPT !.declen = TrueLen(Add4) + 4]
Negative == [Add4 EXCEPT !.declen = MinInt32 + TrueLen(Add4)]
\* a route frame that is a header and nothing else
HeaderOnly == [Frame(RTM_NEWROUTE, AF_INET, 0, 0, 0, <<>>)
                  EXCEPT !.declen = SizeofNlmsghdr, !.cut = SizeofRtmsg]
Unaligned == [Frame(RTM_NEWROUTE, AF_INET, 32, RTPROT_KERNEL, RT_TABLE_MAIN,
                    <<RTA_DST>>) EXCEPT !.declen = 34, !.cut = 2]

\* a batch that fills the buffer: one route frame padded by a filler
\* attribute, then a frame of which only `rest` bytes fit
Big(rest) == [Add4 EXCEPT !.fill = BUFSIZE - rest - TrueLen(Add4) - SizeofRtattr]
Truncated(rest) ==
    RxData(<<Big(rest), [Del6 EXCEPT !.cut = TrueLen(Del6) - rest]>>,
           0, TRUE, SizeofSockaddrNl)

(***************************************************************************)
(* Specification of read_routes alone: one call on each outcome of BatchRx *)
(***************************************************************************)
MaxFrames == 2

FrameSeqs == UNION {[1..n -> KernelFrames] : n \in 1..MaxFrames}

BatchRx ==
    {RxBatch(fs) : fs \in FrameSeqs}
      \cup {RxBatch(<<Add4, f>>) : f \in {TooShort, TooLong, Negative}}
      \cup {RxBatch(<<f>>) : f \in {TooShort, TooLong, Negative, Unaligned}}
      \cup {RxBatch(<<HeaderOnly, Del6>>), RxBatch(<<Add4, HeaderOnly>>)}
      \cup {RxData(<<Add4>>, 4, FALSE, SizeofSockaddrNl),
            RxData(<<Add4>>, 0, FALSE, 0),
            Truncated(40), Truncated(8), RxEof}
      \cup {RxErr(e) : e \in {EINTR, EAGAIN, ENOBUFS, EBADF}}

InitBatch ==
    /\ pc = "recv"
    /\ rx \in BatchRx
    /\ errno \in {0, EAGAIN}
    /\ ptrsize \in {4, 8}
    /\ status = NULL
    /\ rsetStdin = FALSE /\ rsetSock = TRUE /\ wsetSock = FALSE
    /\ out = <<>>
    /\ dumps = 0 /\ ops = <<>>
    /\ frame = NoFrame /\ rxOut = <<>> /\ rxDisp = <<>> /\ rxOob = FALSE
    /\ wakeups = 0 /\ reads = 0
    /\ first = NoRx /\ attrTab = <<>>

ReadStep ==
    /\ pc = "recv"
    /\ \E g \in UBOutcomes :
         LET res == read_routes(rx, errno, ptrsize, g)
         IN  /\ out' = out \o res.out
             /\ rxOut' = res.out
             /\ rxDisp' = res.disp
             /\ rxOob' = res.oob
             /\ errno' = res.errno
             /\ status' = res.status
             /\ pc' = IF res.status = NULL THEN "returned" ELSE "exited"
    /\ reads' = reads + 1
    /\ UNCHANGED <<rsetStdin, rsetSock, wsetSock, dumps, ops, rx, frame,
                   ptrsize, wakeups, first, attrTab>>

NextBatch == ReadStep

SpecBatch == InitBatch /\ [][NextBatch]_vars

(***************************************************************************)
(* main: the event loop.  pc is the position in the loop body: "select",   *)
(* then the three FD_ISSET tests "stdin", "wset", "rset".  out, ops, rx,   *)
(* rxOut, rxDisp and rxOob describe the current wakeup only.               *)
(***************************************************************************)
MaxWakeups == 2

MainRx ==
    {RxErr(EAGAIN), RxErr(ENOBUFS), RxErr(EBADF), RxEof,
     RxBatch(<<Add4>>), RxBatch(<<Add4, Done>>), RxBatch(<<Link, Del6>>),
     RxBatch(<<TooShort>>), RxBatch(<<Negative>>)}

\* read(STDIN_FILENO, buf, 1): n and, when n = -1, errno
StdinReads ==
    {[n |-> 1, err |-> 0], [n |-> 0, err |-> 0],
     [n |-> -1, err |-> EWOULDBLOCK], [n |-> -1, err |-> EBADF]}

Init ==
    /\ pc = "select"
    /\ status = NULL
    /\ rsetStdin = FALSE /\ rsetSock = FALSE
    /\ wsetSock = TRUE
    /\ errno = 0
    /\ out = <<>>
    /\ dumps = 0 /\ ops = <<>>
    /\ rx = NoRx /\ rxOut = <<>> /\ rxDisp = <<>> /\ rxOob = FALSE
    /\ frame = NoFrame
    /\ ptrsize \in {4, 8}
    /\ wakeups = 0 /\ reads = 0
    /\ first = NoRx /\ attrTab = <<>>

\* FD_SET(STDIN_FILENO, &rset); FD_SET(sock, &rset); select(...): select
\* leaves in each set the descriptors that are ready, or fails
Select ==
    /\ pc = "select"
    /\ wakeups < MaxWakeups
    /\ wakeups' = wakeups + 1
    /\ ops' = <<>> /\ rx' = NoRx /\ rxOut' = <<>> /\ rxDisp' = <<>>
    /\ rxOob' = FALSE
    /\ \/ \E e \in {EINTR, EBADF} :
            /\ errno' = e
            /\ out' = <<error_quit("select", e)>>
            /\ status' = 1
            /\ pc' = "exited"
            /\ UNCHANGED <<rsetStdin, rsetSock, wsetSock>>
       \/ \E sr, kr, kw \in BOOLEAN :
            /\ sr \/ kr \/ (wsetSock /\ kw)
            /\ rsetStdin' = sr
            /\ rsetSock' = kr
            /\ wsetSock' = (wsetSock /\ kw)
            /\ out' = <<>>
            /\ pc' = "stdin"
            /\ UNCHANGED <<status, errno>>
    /\ UNCHANGED <<dumps, frame, ptrsize, reads, first, attrTab>>

\* StdinVerdict without the end-of-file branch
StdinVerdict_eofIgnored(n, e) ==
    IF n = -1 /\ e # EWOULDBLOCK THEN "quit" ELSE "go on"

\* what the loop does with the result n of the control read, errno being e
StdinVerdict(n, e) ==
    IF n = -1 /\ e # EWOULDBLOCK THEN "quit"
    ELSE IF n = 0 THEN "eof"
    ELSE "go on"

ReadOp(n) ==
    CASE n = 0 -> "read=0" [] n = 1 -> "read=1" [] OTHER -> "read=-1"

\* if (FD_ISSET(STDIN_FILENO, &rset)) { n = read(...); ... }
ControlInput ==
    /\ pc = "stdin"
    /\ IF rsetStdin THEN
          \E r \in StdinReads :
             LET e == IF r.n = -1 THEN r.err ELSE errno
                 v == StdinVerdict(r.n, e)
             IN  /\ errno' = e
                 /\ ops' = Append(ops, ReadOp(r.n))
                 /\ IF v = "quit" THEN
                        /\ out' = Append(out, error_quit("read", e))
                        /\ status' = 1
                        /\ pc' = "exited"
                    ELSE IF v = "eof" THEN
                        /\ status' = 0
                        /\ pc' = "exited"
                        /\ out' = out
                    ELSE
                        /\ pc' = "wset"
                        /\ UNCHANGED <<status, out>>
       ELSE /\ pc' = "wset"
            /\ UNCHANGED <<errno, ops, status, out>>
    /\ UNCHANGED <<rsetStdin, rsetSock, wsetSock, dumps, rx, rxOut, rxDisp,
                   rxOob, frame, ptrsize, wakeups, reads, first, attrTab>>

\* request_dump: send() result is not looked at; a failure leaves errno set
SendErrnos == {0, EAGAIN}

\* the effect of one call of read_routes on the loop's state; first keeps
\* the first batch read in the run, what the call wrote for it and the
\* number of that call
CallReadRoutes(r, e, g, next, prefix) ==
    LET res == read_routes(r, e, ptrsize, g)
    IN  /\ rx' = r
        /\ rxOut' = res.out
        /\ rxDisp' = res.disp
        /\ rxOob' = res.oob
        /\ out' = out \o res.out
        /\ errno' = res.errno
        /\ status' = IF res.status = NULL THEN status ELSE res.status
        /\ pc' = IF res.status = NULL THEN next ELSE "exited"
        /\ ops' = ops \o prefix \o <<"read_routes">>
        /\ reads' = reads + 1
        /\ first' = IF first = NoRx /\ r.kind = "data"
                    THEN [rx |-> r, out |-> res.out, at |-> reads + 1]
                    ELSE first

\* FD_CLR that leaves the descriptor in the set
FD_CLR_forgotten(bit) == bit

\* FD_CLR(sock, &wset): the descriptor's bit of the set after the call
FD_CLR(bit) == FALSE

\* if (FD_ISSET(sock, &wset)) { FD_CLR; request_dump; read_routes }
Writable ==
    /\ pc = "wset"
    /\ IF wsetSock THEN
          /\ wsetSock' = FD_CLR(wsetSock)
          /\ dumps' = dumps + 1
          /\ \E s \in SendErrnos, r \in MainRx, g \in UBOutcomes :
                CallReadRoutes(r, IF s = 0 THEN errno ELSE s, g, "rset",
                               <<"request_dump">>)
       ELSE /\ pc' = "rset"
            /\ UNCHANGED <<wsetSock, dumps, rx, rxOut, rxDisp, rxOob, out,
                           errno, status, ops, reads, first>>
    /\ UNCHANGED <<rsetStdin, rsetSock, frame, ptrsize, wakeups, attrTab>>

\* the readable test as the else branch of the writable test
ReadableSet_elseIf == rsetSock /\ ~("request_dump" \in Range(ops))

\* FD_ISSET(sock, &rset) after the writable branch
ReadableSet == rsetSock

\* if (FD_ISSET(sock, &rset)) read_routes(sock);
Readable ==
    /\ pc = "rset"
    /\ IF ReadableSet THEN
          \E r \in MainRx, g \in UBOutcomes :
             CallReadRoutes(r, errno, g, "select", <<>>)
       ELSE /\ pc' = "select"
            /\ UNCHANGED <<rx, rxOut, rxDisp, rxOob, out, errno, status, ops,
                           reads, first>>
    /\ UNCHANGED <<rsetStdin, rsetSock, wsetSock, dumps, frame, ptrsize,
                   wakeups, attrTab>>

Next == Select \/ ControlInput \/ Writable \/ Readable

Spec == Init /\ [][Next]_vars

(***************************************************************************)
(* Specification of parse_attrs alone: one call on each block of           *)
(* ParseBlocks.  frame.attrs lists the kinds of the block's attributes and *)
(* frame.cut is the number of bytes by which the length handed to          *)
(* parse_attrs falls short of the block.                                   *)
(***************************************************************************)
ParseKinds == {RTA_DST, RTA_GATEWAY, RTA_TABLE, RTA_MAX + 1}

Block(f) == EncAttrs(f.attrs, f.family)
BlockLen(f) == Len(Block(f)) - f.cut

ParseBlocks ==
    {[Frame(0, fam, 0, 0, 0, al) EXCEPT !.cut = c] :
        fam \in {AF_INET, AF_INET6},
        al \in UNION {[1..n -> ParseKinds] : n \in 0..MaxAttrs},
        c \in {0, 1, SizeofRtattr, 2 * SizeofRtattr}}

InitParse ==
    /\ pc = "parse_attrs"
    /\ frame \in {f \in ParseBlocks : BlockLen(f) >= 0}
    /\ ptrsize \in {4, 8}
    /\ status = NULL
    /\ rsetStdin = FALSE /\ rsetSock = FALSE /\ wsetSock = FALSE
    /\ errno = 0
    /\ out = <<>>
    /\ dumps = 0 /\ ops = <<>>
    /\ rx = NoRx /\ rxOut = <<>> /\ rxDisp = <<>> /\ rxOob = FALSE
    /\ wakeups = 0 /\ reads = 0
    /\ first = NoRx /\ attrTab = <<>>

ParseStep ==
    /\ pc = "parse_attrs"
    /\ pc' = "parsed"
    /\ attrTab' = parse_attrs(Block(frame), 0, BlockLen(frame), ptrsize)
    /\ UNCHANGED <<status, rsetStdin, rsetSock, wsetSock, errno, out, dumps,
                   ops, rx, rxOut, rxDisp, rxOob, frame, ptrsize, wakeups,
                   reads, first>>

NextParse == ParseStep

SpecParse == InitParse /\ [][NextParse]_vars

\* ---- CLAIMS ----
(***************************************************************************)
(* Properties of notify, checked under SpecNotify                          *)
(***************************************************************************)
Kinds(f) == Range(f.attrs)
IsRoute(f) == f.type \in {RTM_NEWROUTE, RTM_DELROUTE}
Filtered(f) == f.protocol = RTPROT_ROUTEMACHINE \/ f.table # RT_TABLE_MAIN
FamilyOk(f) == f.family \in {AF_INET, AF_INET6}
Accepted(f) == IsRoute(f) /\ ~Filtered(f) /\ FamilyOk(f)
Width(f) == IF f.family = AF_INET THEN 4 ELSE 16
Zeros(n) == [i \in 1..n |-> 0]
IsEvent(r) == r.cmd \in {RTM_CMD_ROUTE_ADD, RTM_CMD_ROUTE_DEL}
IsError(r) == r.cmd = RTM_CMD_ROUTE_ERR
Events(s) == SelectSeq(s, IsEvent)
Errors(s) == SelectSeq(s, IsError)
Notified == pc = "notified"

\* C1: a route-add frame carrying destination, gateway and priority, in any
\* order and at any position, yields exactly one record with cmd 0, the
\* frame's mask length and the three attributes' bytes (priority big-endian).
C1_AddRecordMatchesAttributes ==
    (/\ Notified
     /\ frame.type = RTM_NEWROUTE
     /\ Accepted(frame)
     /\ {RTA_DST, RTA_GATEWAY, RTA_PRIORITY} \subseteq Kinds(frame))
    => out = <<[cmd |-> RTM_CMD_ROUTE_ADD, mask |-> frame.dst_len,
                dst |-> AttrData(RTA_DST, frame.family),
                gw |-> AttrData(RTA_GATEWAY, frame.family),
                prio |-> PrioNet]>>

\* C2: every route-event record has destination and gateway fields of 4
\* bytes for IPv4 and 16 bytes for IPv6, so it is 14 or 38 bytes long.
C2_FieldWidthsFollowFamily ==
    Notified =>
        \A i \in 1..Len(out) :
            IsEvent(out[i]) =>
                /\ Len(out[i].dst) = Width(frame)
                /\ Len(out[i].gw) = Width(frame)
                /\ 1 + 1 + Len(out[i].dst) + Len(out[i].gw) + Len(out[i].prio)
                     \in {1 + 1 + 4 + 4 + 4, 1 + 1 + 16 + 16 + 4}

\* C3: an accepted route frame that omits destination or gateway yields the
\* all-zeros address of the family's width in that field, and four zero
\* bytes of priority when the priority is omitted.
C3_OmittedAttributesDefaultToZeros ==
    (Notified /\ Accepted(frame)) =>
        /\ Len(out) = 1
        /\ IsEvent(out[1])
        /\ RTA_DST \notin Kinds(frame) => out[1].dst = Zeros(Width(frame))
        /\ RTA_GATEWAY \notin Kinds(frame) => out[1].gw = Zeros(Width(frame))
        /\ RTA_PRIORITY \notin Kinds(frame) => out[1].prio = Zeros(4)

\* C4 (as stated): a dispatched frame of a family other than IPv4 and IPv6
\* yields no route event and exactly one error record, whatever its origin
\* protocol and table are.
C4_BadFamilyAlwaysOneError ==
    (Notified /\ ~FamilyOk(frame)) =>
        /\ Events(out) = <<>>
        /\ Len(Errors(out)) = 1

\* C4 (amended): a dispatched frame of a family other than IPv4 and IPv6
\* whose origin is not the self identifier and whose table is the main table
\* yields no route event and exactly one error record.
C4_BadFamilyUnfilteredOneError ==
    (Notified /\ ~FamilyOk(frame) /\ ~Filtered(frame)) =>
        /\ Events(out) = <<>>
        /\ Len(Errors(out)) = 1

C4_Witness ==
    /\ Notified /\ IsRoute(frame) /\ ~FamilyOk(frame) /\ ~Filtered(frame)
    /\ frame.attrs # <<>>
    /\ out = <<error_reply("bad message family")>>

ReadDone == pc \in {"returned", "exited"}
Present(f) == TrueLen(f) - f.cut
Declared(f) == IF f.declen = NULL THEN TrueLen(f) ELSE f.declen
Intact(f) == f.declen = NULL /\ f.cut = 0
IsData(r) == r.kind = "data" /\ r.namelen = SizeofSockaddrNl
WellFormed(r) ==
    /\ IsData(r) /\ ~r.trunc /\ r.tail = 0
    /\ \A i \in 1..Len(r.frames) : Intact(r.frames[i])
Front(s) == SubSeq(s, 1, Len(s) - 1)
Last(s) == s[Len(s)]

RECURSIVE SumPresent(_)
SumPresent(fs) ==
    IF fs = <<>> THEN 0 ELSE Present(Head(fs)) + SumPresent(Tail(fs))

\* the cmd and prefix length of the records expected for a run of frames
RECURSIVE ExpectedEvents(_)
ExpectedEvents(fs) ==
    IF fs = <<>> THEN <<>>
    ELSE (IF Accepted(Head(fs))
          THEN <<<<IF Head(fs).type = RTM_NEWROUTE THEN RTM_CMD_ROUTE_ADD
                   ELSE RTM_CMD_ROUTE_DEL, Head(fs).dst_len>>>>
          ELSE <<>>) \o ExpectedEvents(Tail(fs))

CmdMask(s) == [i \in 1..Len(s) |-> <<s[i].cmd, s[i].mask>>]

IsOther(f) == ~IsRoute(f) /\ f.type # NLMSG_DONE
IsNotARoute(r) == r = error_reply("not a route")

\* C6 (as stated): a frame whose type is neither route-add nor route-delete
\* (terminator, link or address notification) writes no record at all.
C6_NonRouteFramesWriteNothing ==
    (/\ ReadDone /\ WellFormed(rx)
     /\ \A i \in 1..Len(rx.frames) : ~IsRoute(rx.frames[i]))
    => rxOut = <<>>

\* C6 (amended): a frame whose type is neither route-add nor route-delete
\* never yields a route-event record; the dump terminator writes no record
\* at all, and every other such frame writes exactly one error record,
\* "not a route".
C6_OnlyTerminatorIsSilent ==
    (ReadDone /\ WellFormed(rx)) =>
        /\ status = NULL
        /\ Len(SelectSeq(rxOut, IsNotARoute)) = Len(SelectSeq(rx.frames, IsOther))
        /\ (\A i \in 1..Len(rx.frames) : ~IsRoute(rx.frames[i]))
              => rxOut = [i \in 1..Len(SelectSeq(rx.frames, IsOther)) |->
                             error_reply("not a route")]

C6_Witness ==
    /\ ReadDone /\ WellFormed(rx)
    /\ rx.frames = <<Link, Done>>
    /\ rxOut = <<error_reply("not a route")>>

\* C7: a batch flagged truncated whose last frame declares more bytes than
\* remain yields the records of the complete frames before it, no error
\* record, and no exit.
C7_TruncatedLastFrameNotFatal ==
    (/\ ReadDone /\ IsData(rx) /\ rx.trunc
     /\ Declared(Last(rx.frames)) > Present(Last(rx.frames)))
    => /\ status = NULL
       /\ Errors(rxOut) = <<>>
       /\ CmdMask(Events(rxOut)) = ExpectedEvents(Front(rx.frames))

\* the declared length, a 32-bit unsigned value, is below the header size or
\* above the bytes that remain (a negative int stands for 2^31 or more)
Offending(f) ==
    \/ Declared(f) < 0
    \/ Declared(f) < SizeofNlmsghdr
    \/ Declared(f) > Present(f)

\* C8: in a batch not flagged truncated, a frame whose declared length is
\* below the header size or above the bytes remaining is fatal (error
\* record, exit status 1) and is never dispatched to notify.
C8_BadDeclaredLengthIsFatal ==
    (/\ ReadDone /\ IsData(rx) /\ ~rx.trunc
     /\ \A i \in 1..(Len(rx.frames) - 1) : Intact(rx.frames[i])
     /\ Offending(Last(rx.frames)))
    => /\ status = 1
       /\ rxOut # <<>> /\ IsError(Last(rxOut))
       /\ SumPresent(Front(rx.frames)) \notin Range(rxDisp)

\* C9: a batch of valid back-to-back frames yields exactly one route-event
\* record per accepted route frame, in the order of the frames, and nothing
\* for a terminator; a route-add followed by a terminator yields exactly one
\* record.
C9_OneRecordPerAcceptedFrame ==
    (ReadDone /\ WellFormed(rx)) =>
        /\ status = NULL
        /\ CmdMask(Events(rxOut)) = ExpectedEvents(rx.frames)
        /\ (\A i \in 1..Len(rx.frames) :
               Accepted(rx.frames[i]) \/ rx.frames[i].type = NLMSG_DONE)
              => Len(rxOut) = Len(ExpectedEvents(rx.frames))

C9_Witness ==
    /\ ReadDone
    /\ rx = RxBatch(<<Add4, Done>>)
    /\ Len(rxOut) = 1 /\ rxOut[1].cmd = RTM_CMD_ROUTE_ADD

(***************************************************************************)
(* Properties of the event loop, checked under Spec                        *)
(***************************************************************************)
\* C10: when the control read of a wakeup returns zero bytes the process
\* exits with status 0 having written nothing in that wakeup, sent no dump
\* request and read nothing from the channel, whatever else was ready.
C10_EofExitsAtOnce ==
    ("read=0" \in Range(ops)) =>
        /\ pc = "exited"
        /\ status = 0
        /\ out = <<>>
        /\ ops = <<"read=0">>
        /\ rx = NoRx

C10_Witness ==
    /\ pc = "exited" /\ status = 0
    /\ ops = <<"read=0">>
    /\ wsetSock /\ rsetSock

\* C11: the process ends in two ways only: status 0 after end of file on
\* the control input, or status 1 with an error record as the last thing
\* written.
C11_OnlyTwoWaysToExit ==
    pc = "exited" =>
        \/ status = 0 /\ ops = <<"read=0">>
        \/ status = 1 /\ out # <<>> /\ IsError(out[Len(out)])

\* C12: the dump request is sent at most once: no step arms the
\* dump-pending flag again, and the step that calls request_dump is the
\* first to do so and leaves the flag cleared.
C12_DumpSentAtMostOnce ==
    [][ /\ (wsetSock' => wsetSock)
        /\ (dumps' # dumps =>
               dumps = 0 /\ dumps' = 1 /\ wsetSock /\ ~wsetSock') ]_vars

\* a later wakeup reports readiness after the dump request went out
C12_Witness ==
    /\ dumps = 1
    /\ wakeups = 2
    /\ pc = "rset"
    /\ ~("request_dump" \in Range(ops))

\* C13: while the process runs and request_dump has not been called, the
\* dump-pending flag is still armed, whatever the wakeups so far reported,
\* so that the first wakeup reporting the channel writable sends the dump.
C13_DumpStaysPendingUntilSent ==
    (pc # "exited" /\ dumps = 0) => wsetSock

C15_TransientReadLeavesNoTrace ==
    [][ (pc = "rset" /\ reads' = reads + 1 /\ rx'.kind \in {"err", "eof"}) =>
          IF rx'.kind = "err" /\ rx'.err \in {EINTR, EAGAIN, ENOBUFS}
          THEN /\ out' = out /\ rxOut' = <<>>
               /\ pc' # "exited" /\ status' = status
               /\ wsetSock' = wsetSock
               /\ \A r \in MainRx, g \in UBOutcomes :
                     read_routes(r, errno', ptrsize, g).out
                         = read_routes(r, errno, ptrsize, g).out
          ELSE /\ pc' = "exited" /\ status' = 1
               /\ rxDisp' = <<>> ]_vars

\* the operations of one wakeup, in the order of the loop body
CtlOps == IF rsetStdin THEN {<<"read=0">>, <<"read=1">>, <<"read=-1">>}
          ELSE {<<>>}
DumpOps == <<"request_dump", "read_routes">>
ReadOps == IF rsetSock THEN <<"read_routes">> ELSE <<>>

\* C16: in one wakeup the control input is read first, then the pending
\* dump request is sent and followed by a channel read, then the channel is
\* read once more if it was reported readable.
C16_FixedOrderWithinWakeup ==
    /\ [](/\ pc = "wset" => ops \in CtlOps
          /\ pc = "rset" =>
                ~wsetSock /\ \E c \in CtlOps : ops \in {c, c \o DumpOps}
          /\ (pc = "select" /\ wakeups > 0) =>
                \E c \in CtlOps :
                   ops \in {c \o ReadOps, c \o DumpOps \o ReadOps}
          /\ pc = "exited" =>
                \/ ops = <<>>
                \/ \E c \in CtlOps :
                      ops \in {c, c \o DumpOps, c \o ReadOps,
                               c \o DumpOps \o ReadOps})
    /\ [][(pc = "wset" /\ wsetSock) => ops' = ops \o DumpOps]_vars

\* a wakeup with control input, a pending dump and a readable channel ends
\* after the control read, the dump request and two channel reads
C16_Witness ==
    /\ pc = "select"
    /\ ops = <<"read=1", "request_dump", "read_routes", "read_routes">>

\* a batch whose frames are laid end to end, each declaring the bytes it has
Framed(r) ==
    /\ IsData(r) /\ ~r.trunc /\ r.tail = 0
    /\ \A i \in 1..Len(r.frames) :
          /\ Declared(r.frames[i]) = Present(r.frames[i])
          /\ Declared(r.frames[i]) >= SizeofNlmsghdr
          /\ Declared(r.frames[i]) % 4 = 0

\* the non-fatal protocol error a frame stands for, "" if none
ProtocolError(f) ==
    IF IsOther(f) THEN "not a route"
    ELSE IF IsRoute(f) /\ Declared(f) < SizeofNlmsghdr + SizeofRtmsg
    THEN "wrong message length"
    ELSE IF IsRoute(f) /\ ~Filtered(f) /\ ~FamilyOk(f)
    THEN "bad message family"
    ELSE ""

\* what is expected of each frame in turn: an error text or "event"
RECURSIVE ExpectedShape(_)
ExpectedShape(fs) ==
    IF fs = <<>> THEN <<>>
    ELSE (IF ProtocolError(Head(fs)) # "" THEN <<ProtocolError(Head(fs))>>
          ELSE IF Accepted(Head(fs)) THEN <<"event">>
          ELSE <<>>) \o ExpectedShape(Tail(fs))

Shape(s) == [i \in 1..Len(s) |-> IF IsError(s[i]) THEN s[i].msg ELSE "event"]
NotDone(f) == f.type # NLMSG_DONE

\* C17: each frame that is a non-fatal protocol error writes one record
\* (255, N, N message bytes) at its place among the records of the batch,
\* every other frame of the batch is still dispatched, and read_routes
\* returns to the loop.
C17_ProtocolErrorIsOneRecordAndGoesOn ==
    (/\ ReadDone /\ Framed(rx)
     /\ \E i \in 1..Len(rx.frames) : ProtocolError(rx.frames[i]) # "")
    => /\ pc = "returned" /\ status = NULL
       /\ Shape(rxOut) = ExpectedShape(rx.frames)
       /\ \A i \in 1..Len(rxOut) :
             IsError(rxOut[i]) =>
                rxOut[i] = [cmd |-> 255, len |-> Len(rxOut[i].msg),
                            msg |-> rxOut[i].msg]
       /\ Len(rxDisp) = Len(SelectSeq(rx.frames, NotDone))

\* a header-only route frame is answered by an error record and the frame
\* after it by a route event
C17_Witness ==
    /\ ReadDone /\ Framed(rx)
    /\ Len(rxOut) = 2
    /\ rxOut[1] = [cmd |-> 255, len |-> 20, msg |-> "wrong message length"]
    /\ IsEvent(rxOut[2])

\* the fatal messages whose cause carries no system error code
BareFatal ==
    {"recvmsg: EOF", "bad message namelen", "truncated message",
     "malformed message", "unexpected remaining bytes"}

\* C18: the message of a fatal error record ends with a system error
\* description exactly when its cause is a failed system call (select, the
\* control read, recvmsg); the five other fatal messages are written bare,
\* whatever errno earlier operations left.
C18_SuffixOnlyForSystemErrors ==
    (pc = "exited" /\ status = 1 /\ out # <<>>) =>
        LET m == out[Len(out)].msg
        IN  IF ops = <<>> THEN m = "select: " \o strerror(errno)
            ELSE IF ops[Len(ops)] = "read=-1"
            THEN m = "read: " \o strerror(errno)
            ELSE IF rx.kind = "err"
            THEN m = "recvmsg: " \o strerror(rx.err)
            ELSE m \in BareFatal

\* the offset and the end of the i-th attribute of a block
AttrOffset(f, i) == Len(EncAttrs(SubSeq(f.attrs, 1, i - 1), f.family))
AttrEnd(f, i) == AttrOffset(f, i) + rta_len(Block(f), AttrOffset(f, i))

\* the attributes of kind k that lie wholly inside the length handed over
Inside(f, k) ==
    {i \in 1..Len(f.attrs) : f.attrs[i] = k /\ AttrEnd(f, i) <= BlockLen(f)}

Greatest(S) == CHOOSE i \in S : \A j \in S : j <= i

\* C19: parse_attrs returns a table in which each kind of 0..RTA_MAX maps to
\* the last attribute of that kind lying wholly inside the given length and
\* to empty if there is none, kinds above RTA_MAX leave no trace, and bytes
\* beyond the given length have no influence.
C19_TableHoldsLastInsideAttribute ==
    pc = "parsed" =>
        /\ DOMAIN attrTab = 0..RTA_MAX
        /\ \A k \in 0..RTA_MAX :
              attrTab[k] = IF Inside(frame, k) = {} THEN NULL
                           ELSE AttrOffset(frame, Greatest(Inside(frame, k)))
        /\ attrTab = parse_attrs(SubSeq(Block(frame), 1, BlockLen(frame)), 0,
                                 BlockLen(frame), ptrsize)

\* C20: when no frame declares a negative length, the framing loop reads no
\* frame header outside the bytes received and every frame it dispatches
\* has its header inside them.
C20_FramingStaysInsideReceivedBytes ==
    (/\ ReadDone /\ IsData(rx)
     /\ \A i \in 1..Len(rx.frames) : Declared(rx.frames[i]) >= 0)
    => /\ ~rxOob
       /\ \A i \in 1..Len(rxDisp) :
             rxDisp[i] >= 0
               /\ rxDisp[i] + SizeofNlmsghdr <= Len(EncBatch(rx))

====
